---- MODULE Spec2Model ----
(***************************************************************************)
(* A model of the SQS wrapper library (batch variant of poll): the module  *)
(* level state `sqs` and `queueUrls`, the remote queue service the library *)
(* talks to, and the promise chain of poll / receiveMessages /             *)
(* processMessages / deleteMessage, one action per callback of that chain. *)
(* The one-shot operations (init, reset, getUrl, getArn, createQueue,      *)
(* sendMessage, receiveMessages, deleteMessage) are modelled the same way,  *)
(* one record per call.                                                    *)
(*                                                                         *)
(* JavaScript values (option values, handler results) are written as       *)
(* their literals: "undefined", "null", "false", "true", "0", "1", "''".   *)
(***************************************************************************)
EXTENDS Integers, Sequences, FiniteSets, TLC

VARIABLES
    sqs,          \* TRUE when the module-level client `sqs` is set (init), FALSE when null
    queueUrls,    \* the module-level cache  queueName -> url (Null when no entry)
    remoteQueues, \* the queue names that exist at the remote service
    queue,        \* the remote queue: message id -> [Body, state, receiveCount]
    poller,       \* one record per poll(...) invocation: its position and local values
    deleteCalls,  \* per poller and receipt handle: remote delete calls issued so far
    fate,         \* per receipt handle: who received it and what became of its batch
    passed,       \* per message id: number of handler invocations it was passed to
    call,         \* one record per one-shot operation in progress or finished
    remote        \* remote lookups and creates completed so far, operations started

vars == <<sqs, queueUrls, remoteQueues, queue, poller, deleteCalls, fate, passed,
          call, remote>>

----------------------------------------------------------------------------
(* Bounds of the model *)

MaxMsgs == 2        \* messages enqueued before polling starts
MaxReceives == 2    \* remote receive calls issued, all pollers together
MaxTimeouts == 1    \* visibility timeouts that expire, all messages together
MaxCalls == 2       \* one-shot operations (getUrl, createQueue, ...) started

Pollers == {"p1", "p2"}
MsgIds == 1..MaxMsgs
Attempts == 1..(MaxTimeouts + 1)
Tokens == MsgIds \X Attempts     \* a receipt handle: unique per delivery attempt
QueueNames == {"q"}
Names == QueueNames \cup {""}   \* what a caller passes: a queue name or an empty one
Calls == {"c1", "c2"}           \* one-shot operations that may be in progress together
Ops == {"getUrl", "getArn", "createQueue", "sendMessage", "receiveMessages",
        "deleteMessage"}
BodyTexts == {"7", "{7"}         \* wire bodies: a JSON text and a malformed one

Null == <<>>
UrlOf(name) == <<"https", name>>

----------------------------------------------------------------------------
(* JavaScript value helpers *)

Truthy(js) == js \notin {"undefined", "null", "false", "0", "''"}

Num(js) == CASE js = "0" -> 0 [] js = "1" -> 1 [] js = "2" -> 2
             [] js = "3" -> 3 [] js = "10" -> 10 [] js = "11" -> 11 [] js = "20" -> 20
             [] js = "21" -> 21 [] js = "-1" -> -1

JSONParses(text) == text = "7"
JSONParse(text) == CASE text = "7" -> 7

RECURSIVE SeqOfSet(_)
SeqOfSet(S) ==
    IF S = {} THEN <<>>
    ELSE LET m == CHOOSE x \in S : \A y \in S : x <= y
         IN <<m>> \o SeqOfSet(S \ {m})

RECURSIVE SumOver(_, _)
SumOver(f, S) ==
    IF S = {} THEN 0
    ELSE LET x == CHOOSE y \in S : TRUE IN f[x] + SumOver(f, S \ {x})

Range(s) == {s[i] : i \in 1..Len(s)}

----------------------------------------------------------------------------
(* The decisions the code takes, one operator each *)

PollQueue == "q"    \* the queueName every poller is started with

\* a receive that ignores options.maxMessages (poll calling receiveMessages(queueName))
MaxNumberOfMessagesIgnored(options) == 1

\* receiveMessages: MaxNumberOfMessages: (options.maxMessages) ? options.maxMessages : 1
MaxNumberOfMessages(options) ==
    IF Truthy(options.maxMessages) THEN Num(options.maxMessages) ELSE 1

\* a wait time brought into the range 0..20 the service accepts
WaitTimeSecondsClamped(options) ==
    LET w == IF options.waitTimeSeconds = "undefined" THEN 0
             ELSE Num(options.waitTimeSeconds)
    IN IF w < 0 THEN 0 ELSE IF w > 20 THEN 20 ELSE w

\* receiveMessages: WaitTimeSeconds: (options.waitTimeSeconds) ? options.waitTimeSeconds : 1
WaitTimeSeconds(options) ==
    IF Truthy(options.waitTimeSeconds) THEN Num(options.waitTimeSeconds) ELSE 1

ReceiveParams(options) ==
    [MaxNumberOfMessages |-> MaxNumberOfMessages(options),
     WaitTimeSeconds     |-> WaitTimeSeconds(options)]

\* a decoder that gives up at the first body that does not parse
DecodeStopsAtError(raw) ==
    LET bad == {i \in 1..Len(raw) : ~JSONParses(raw[i].Body)}
        n == IF bad = {} THEN Len(raw)
             ELSE (CHOOSE i \in bad : \A j \in bad : i <= j) - 1
    IN [i \in 1..n |->
          [ReceiptHandle |-> raw[i].ReceiptHandle, Body |-> JSONParse(raw[i].Body)]]

\* a decoder that keeps the messages whose body does not parse
DecodeKeepsAll(raw) ==
    [i \in 1..Len(raw) |-> [ReceiptHandle |-> raw[i].ReceiptHandle, Body |-> 0]]

\* receiveMessages: the forEach with try { push({ReceiptHandle, Body: JSON.parse}) } catch { log }
Decode(raw) ==
    LET ok == SelectSeq(raw, LAMBDA m : JSONParses(m.Body))
    IN [i \in 1..Len(ok) |->
          [ReceiptHandle |-> ok[i].ReceiptHandle, Body |-> JSONParse(ok[i].Body)]]

\* the log events of receiveMessages' callback: nothing when the response holds no
\* Messages, else one debug event and one error event per body that does not parse
DecodeLog(raw) ==
    IF raw = <<>> THEN <<>>
    ELSE <<"debug">> \o [i \in 1..(Len(raw) - Len(Decode(raw))) |-> "error"]

\* a dispatch that also calls the handler with an empty sequence
ShouldDispatchAlways(messages) == Len(messages) >= 0

\* poll: if (messages.length > 0)
ShouldDispatch(messages) == Len(messages) > 0

\* processMessages: handler(messages)
HandlerArgument(messages) == messages

\* a stop test on falsiness: if (!result)
IsStopFalsy(result) == ~Truthy(result)

\* poll: if (result === false)
IsStop(result) == result = "false"

\* a poll that never stops for depletion
StopWhenDepletedNever(messages, options) == FALSE

\* a depletion test on truthiness: options.stopWhenDepleted instead of === true
StopWhenDepletedTruthy(messages, options) ==
    Len(messages) = 0 /\ Truthy(options.stopWhenDepleted)

\* poll: else if (messages.length === 0 && options.stopWhenDepleted === true)
StopWhenDepleted(messages, options) ==
    Len(messages) = 0 /\ options.stopWhenDepleted = "true"

\* processMessages, handler resolved: messages.forEach(m => deleteMessage(queueName, m.ReceiptHandle))
DeletesOnResolve(messages) == [i \in 1..Len(messages) |-> messages[i].ReceiptHandle]

\* a failure path that deletes the batch all the same
DeletesOnRejectAll(messages) == [i \in 1..Len(messages) |-> messages[i].ReceiptHandle]

\* processMessages, handler rejected: .catch(error => emit('log', 'error', error)), no delete
DeletesOnReject(messages) == <<>>

----------------------------------------------------------------------------
(* Initial state *)

NoParams == [MaxNumberOfMessages |-> 0, WaitTimeSeconds |-> 0]
NoOptions == [maxMessages |-> "undefined", waitTimeSeconds |-> "undefined",
              stopWhenDepleted |-> "undefined"]

IdlePoller ==
    [pc |-> "idle", options |-> NoOptions, promise |-> "none", why |-> "none",
     outcome |-> "none", params |-> NoParams, raw |-> <<>>, batch |-> <<>>,
     emitted |-> <<>>, pending |-> {}, receives |-> 0, handlerCalls |-> 0,
     handedTotal |-> 0]

IdleCall ==
    [op |-> "none", name |-> "", pc |-> "idle", how |-> "none", result |-> "none",
     url |-> Null, log |-> <<>>]

NoRemote == [started |-> 0, lookupsOk |-> 0, lookupsFailed |-> 0, raced |-> FALSE,
             creates |-> 0]

\* the state once the application has called init(options)
Init ==
    /\ sqs = TRUE
    /\ queueUrls = [n \in QueueNames |-> Null]
    /\ remoteQueues \in SUBSET QueueNames
    /\ \E n \in 0..MaxMsgs : \E bad \in 0..n :
         queue = [id \in 1..n |->
                    [Body |-> IF id = bad THEN "{7" ELSE "7", state |-> "visible",
                     receiveCount |-> 0, expired |-> 0]]
    /\ poller = [p \in Pollers |-> IdlePoller]
    /\ deleteCalls = [p \in Pollers |-> [t \in Tokens |-> 0]]
    /\ fate = [t \in Tokens |-> [by |-> "none", is |-> "none"]]
    /\ passed = [id \in MsgIds |-> 0]
    /\ call = [c \in Calls |-> IdleCall]
    /\ remote = NoRemote

----------------------------------------------------------------------------
(* Steps of the promise chain *)

TotalReceives == SumOver([p \in Pollers |-> poller[p].receives], Pollers)
TotalExpired == SumOver([id \in DOMAIN queue |-> queue[id].expired], DOMAIN queue)
CanReceive == TotalReceives < MaxReceives

Visible == {id \in DOMAIN queue : queue[id].state = "visible"}

Settle(pr, how, reason) ==
    [pr EXCEPT !.pc = "done", !.promise = how, !.why = reason]

\* a null test that lets every url through
QueueNotFoundNever(queueUrl) == FALSE

\* receiveMessages, deleteMessage: if (queueUrl == null) throw new Error('Unable to find ...')
QueueNotFound(queueUrl) == queueUrl = Null

\* receiveMessages after getUrl answered `queueUrl`: throws QueueNotFound on null,
\* else issues sqs.receiveMessageAsync(params), a TypeError when sqs is null by then
ReceiveWith(pr, queueUrl) ==
    IF QueueNotFound(queueUrl)
    THEN Settle(pr, "rejected", "notFound")
    ELSE IF ~sqs
    THEN Settle(pr, "rejected", "typeError")
    ELSE [pr EXCEPT !.pc = "receiving", !.receives = @ + 1,
                    !.params = ReceiveParams(pr.options)]

\* poll(queueName, handler, options) called from inside the chain: receiveMessages
\* -> getUrl: throws without a client, looks the name up remotely on a cache miss,
\* answers from the cache otherwise
Recurse(pr) ==
    IF ~sqs THEN Settle(pr, "rejected", "notInit")
    ELSE IF queueUrls[PollQueue] = Null THEN [pr EXCEPT !.pc = "lookup"]
    ELSE ReceiveWith(pr, queueUrls[PollQueue])

\* poll's callback on the result of processMessages
AfterProcess(pr, result) ==
    IF IsStop(result)
    THEN [Settle(pr, "resolved", "stop") EXCEPT !.emitted = pr.emitted \o <<"debug">>]
    ELSE Recurse(pr)

\* the first call of poll, by the application
PollStart(p, options) ==
    /\ poller[p].pc = "idle"
    /\ queueUrls[PollQueue] = Null \/ CanReceive
    /\ poller' = [poller EXCEPT ![p] =
           IF ~sqs
           THEN [Settle(@, "threw", "notInit") EXCEPT !.options = options]
           ELSE Recurse([@ EXCEPT !.options = options, !.promise = "pending"])]
    /\ UNCHANGED <<sqs, queueUrls, remoteQueues, queue, deleteCalls, fate, passed, call,
                 remote>>

\* the sqs.getQueueUrlAsync calls in flight, of poll loops and of one-shot operations
PendingLookups ==
    Cardinality({p \in Pollers : poller[p].pc = "lookup"})
    + Cardinality({c \in Calls : call[c].pc = "lookup"})

\* a remote lookup succeeded; it raced when another lookup was in flight with it
LookupSucceeded ==
    [remote EXCEPT !.lookupsOk = @ + 1, !.raced = @ \/ PendingLookups > 1]

LookupFailed == [remote EXCEPT !.lookupsFailed = @ + 1]

\* getUrl: sqs.getQueueUrlAsync resolved: the url is cached and returned
LookupOk(p) ==
    /\ poller[p].pc = "lookup"
    /\ PollQueue \in remoteQueues
    /\ ~sqs \/ CanReceive
    /\ remote' = LookupSucceeded
    /\ queueUrls' = [queueUrls EXCEPT ![PollQueue] = UrlOf(PollQueue)]
    /\ poller' = [poller EXCEPT ![p] =
           ReceiveWith([@ EXCEPT !.emitted = <<>>], UrlOf(PollQueue))]
    /\ UNCHANGED <<sqs, remoteQueues, queue, deleteCalls, fate, passed, call>>

\* getUrl: sqs.getQueueUrlAsync rejected: debug log, null is returned
LookupFail(p) ==
    /\ poller[p].pc = "lookup"
    /\ PollQueue \notin remoteQueues
    /\ poller' = [poller EXCEPT ![p] =
           ReceiveWith([@ EXCEPT !.emitted = <<"debug">>], Null)]
    /\ remote' = LookupFailed
    /\ UNCHANGED <<sqs, queueUrls, remoteQueues, queue, deleteCalls, fate, passed, call>>

\* what the service hands out for the message ids `ids`
RawMessages(ids) ==
    LET s == SeqOfSet(ids)
    IN [i \in 1..Len(s) |->
          [MessageId |-> s[i],
           ReceiptHandle |-> <<s[i], queue[s[i]].receiveCount + 1>>,
           Body |-> queue[s[i]].Body]]

\* sqs.receiveMessageAsync resolved with the messages `ids` (none: no Messages key);
\* a long poll (WaitTimeSeconds > 0) answers empty only when nothing is visible.
\* The bodies are decoded, and poll dispatches: the handler is called (and throws
\* or returns its promise, `sync`), or poll stops for depletion, or recurses.
ReceiveResponse(p, ids, sync) ==
    /\ poller[p].pc = "receiving"
    /\ ids \subseteq Visible
    /\ Cardinality(ids) <= poller[p].params.MaxNumberOfMessages
    /\ ids # {} \/ Visible = {} \/ poller[p].params.WaitTimeSeconds = 0
    /\ LET raw == RawMessages(ids)
           messages == Decode(raw)
           arg == HandlerArgument(messages)
           log == DecodeLog(raw) \o <<"debug">>
           pr == [poller[p] EXCEPT !.raw = raw, !.emitted = log, !.outcome = "none",
                                   !.batch = <<>>]
           got == [pr EXCEPT !.batch = arg, !.handlerCalls = @ + 1,
                             !.handedTotal = @ + Len(arg)]
           handed == {arg[i].ReceiptHandle : i \in 1..Len(arg)}
       IN /\ queue' = [id \in DOMAIN queue |->
                 IF id \in ids
                 THEN [queue[id] EXCEPT !.state = "inflight", !.receiveCount = @ + 1]
                 ELSE queue[id]]
          /\ IF ShouldDispatch(messages)
             THEN /\ poller' = [poller EXCEPT ![p] =
                        IF sync = "throws"
                        THEN [Settle(got, "rejected", "handlerThrew")
                                EXCEPT !.outcome = "threw"]
                        ELSE [got EXCEPT !.pc = "handling", !.outcome = "pending"]]
                  /\ fate' = [t \in Tokens |->
                        IF t \in handed THEN [by |-> p, is |-> "handed"]
                        ELSE IF t \in {raw[i].ReceiptHandle : i \in 1..Len(raw)}
                        THEN [by |-> p, is |-> "dropped"]
                        ELSE fate[t]]
                  /\ passed' = [id \in MsgIds |->
                        passed[id] + Cardinality({i \in 1..Len(arg) :
                                                    arg[i].ReceiptHandle[1] = id})]
             ELSE /\ sync = "returns"
                  /\ StopWhenDepleted(messages, pr.options) \/ CanReceive
                  /\ poller' = [poller EXCEPT ![p] =
                        IF StopWhenDepleted(messages, pr.options)
                        THEN Settle(pr, "resolved", "depleted")
                        ELSE Recurse(pr)]
                  /\ fate' = [t \in Tokens |->
                        IF t \in {raw[i].ReceiptHandle : i \in 1..Len(raw)}
                        THEN [by |-> p, is |-> "dropped"]
                        ELSE fate[t]]
                  /\ passed' = passed
    /\ UNCHANGED <<sqs, queueUrls, remoteQueues, deleteCalls, call, remote>>

\* sqs.receiveMessageAsync rejected: nothing in the chain catches it
ReceiveFail(p) ==
    /\ poller[p].pc = "receiving"
    /\ poller' = [poller EXCEPT ![p] =
           Settle([@ EXCEPT !.emitted = <<>>], "rejected", "receiveFailed")]
    /\ UNCHANGED <<sqs, queueUrls, remoteQueues, queue, deleteCalls, fate, passed, call,
                 remote>>

\* the deleteMessage calls `tokens` (a sequence) by poller p: each resolves the url
\* from the cache and issues sqs.deleteMessageAsync
IssueDeletes(p, tokens) ==
    deleteCalls' = [deleteCalls EXCEPT ![p] = [t \in Tokens |->
        @[t] + Cardinality({i \in 1..Len(tokens) : tokens[i] = t})]]

SetFate(p, what) ==
    fate' = [t \in Tokens |->
        IF t \in {poller[p].batch[i].ReceiptHandle : i \in 1..Len(poller[p].batch)}
        THEN [by |-> p, is |-> what] ELSE fate[t]]

\* the handler's promise resolved with `result`: processMessages issues the deletes
\* and returns Promise.all(messages).then(() => result); `messages` holds no
\* promise, so this resolves without waiting for the deletes, and poll goes on.
\* Without a client the first deleteMessage throws inside the callback: no delete
\* is issued, the catch logs the error and yields undefined.
HandlerResolve(p, result) ==
    /\ poller[p].pc = "handling"
    /\ ~sqs \/ IsStop(result) \/ CanReceive
    /\ LET tokens == IF sqs THEN DeletesOnResolve(poller[p].batch) ELSE <<>>
       IN /\ IssueDeletes(p, tokens)
          /\ poller' = [poller EXCEPT ![p] =
                AfterProcess([@ EXCEPT !.outcome = "resolved",
                                       !.emitted = IF sqs THEN <<>> ELSE <<"error">>,
                                       !.pending = @ \cup Range(tokens)],
                             IF sqs THEN result ELSE "undefined")]
    /\ SetFate(p, "resolved")
    /\ UNCHANGED <<sqs, queueUrls, remoteQueues, queue, passed, call, remote>>

\* the handler's promise rejected: the catch logs the error and yields undefined
HandlerReject(p) ==
    /\ poller[p].pc = "handling"
    /\ ~sqs \/ CanReceive
    /\ LET tokens == DeletesOnReject(poller[p].batch)
       IN /\ IssueDeletes(p, tokens)
          /\ poller' = [poller EXCEPT ![p] =
                AfterProcess([@ EXCEPT !.outcome = "rejected", !.emitted = <<"error">>,
                                       !.pending = @ \cup Range(tokens)], "undefined")]
    /\ SetFate(p, "rejected")
    /\ UNCHANGED <<sqs, queueUrls, remoteQueues, queue, passed, call, remote>>

\* sqs.deleteMessageAsync resolved: the service removes the message when the
\* handle is the one of its latest delivery
DeleteOk(p, t) ==
    /\ t \in poller[p].pending
    /\ poller' = [poller EXCEPT ![p].pending = @ \ {t}]
    /\ queue' = [id \in DOMAIN queue |->
          IF id = t[1] /\ queue[id].receiveCount = t[2]
          THEN [queue[id] EXCEPT !.state = "deleted"] ELSE queue[id]]
    /\ UNCHANGED <<sqs, queueUrls, remoteQueues, deleteCalls, fate, passed, call, remote>>

\* sqs.deleteMessageAsync rejected: the promise is in `promises`, which nothing reads
DeleteFail(p, t) ==
    /\ t \in poller[p].pending
    /\ poller' = [poller EXCEPT ![p].pending = @ \ {t}]
    /\ UNCHANGED <<sqs, queueUrls, remoteQueues, queue, deleteCalls, fate, passed, call,
                 remote>>

\* the service: the visibility timeout of a received, undeleted message expires
VisibilityTimeout(id) ==
    /\ id \in DOMAIN queue
    /\ queue[id].state = "inflight"
    /\ TotalExpired < MaxTimeouts
    /\ queue' = [queue EXCEPT ![id].state = "visible", ![id].expired = @ + 1]
    /\ UNCHANGED <<sqs, queueUrls, remoteQueues, poller, deleteCalls, fate, passed, call,
                 remote>>

----------------------------------------------------------------------------
(* The one-shot operations: init, reset, getUrl, getArn, createQueue,       *)
(* sendMessage, receiveMessages, deleteMessage                              *)

\* a cache that never answers
CacheHitNever(name) == FALSE

\* getUrl: else if (!queueUrls[queueName]) ... return Promise.resolve(queueUrls[queueName])
CacheHit(name) == queueUrls[name] # Null

\* a getUrl that answers a cached name before it looks at the client
GetUrlCacheFirst(name) ==
    IF name # "" /\ CacheHit(name) THEN "cached"
    ELSE IF ~sqs THEN "throw"
    ELSE IF name = "" THEN "null"
    ELSE "lookup"

\* getUrl, its synchronous part: throws without a client, returns a bare null for
\* an empty name, starts a remote lookup on a cache miss, answers from the cache
GetUrl(name) ==
    IF ~sqs THEN "throw"
    ELSE IF name = "" THEN "null"
    ELSE IF ~CacheHit(name) THEN "lookup"
    ELSE "cached"

\* a lookup whose outcome is cached also when it failed
CachedAfterAlways(name, found) == [queueUrls EXCEPT ![name] = UrlOf(name)]

\* getUrl, the cache after the remote lookup: queueUrls[queueName] = data.QueueUrl
\* in the then-callback only, the catch writes nothing
CachedAfter(name, found) ==
    IF found THEN [queueUrls EXCEPT ![name] = UrlOf(name)] ELSE queueUrls

\* a createQueue that creates whatever the lookup said
CreateAlways(queueUrl) == TRUE

\* createQueue: if (queueUrl) { ...already exists; return queueUrl; } else create
CreateNeeded(queueUrl) == queueUrl = Null

Finish(cr, how, result) == [cr EXCEPT !.pc = "done", !.how = how, !.result = result]

\* a second remote call of the operation: sqs.<method>Async(...), a TypeError
\* inside the then-callback when sqs is null by then
RemoteCall(cr) ==
    IF ~sqs THEN Finish(cr, "rejected", "TypeError")
    ELSE [cr EXCEPT !.pc = "remote", !.how = "pending"]

\* the then-callback each operation attaches to getUrl(queueName), on `queueUrl`
Then(cr, queueUrl) ==
    LET c == [cr EXCEPT !.url = queueUrl]
    IN CASE c.op = "getUrl" ->
              Finish(c, "resolved", IF queueUrl = Null THEN "null" ELSE "url")
         [] c.op = "getArn" ->
              IF queueUrl # Null THEN RemoteCall(c) ELSE Finish(c, "resolved", "null")
         [] c.op = "createQueue" ->
              IF CreateNeeded(queueUrl) THEN RemoteCall(c)
              ELSE Finish([c EXCEPT !.log = @ \o <<"info: already exists">>],
                          "resolved", "url")
         [] c.op = "sendMessage" ->
              RemoteCall([c EXCEPT !.log = @ \o <<"debug: sending">>])
         [] c.op \in {"receiveMessages", "deleteMessage"} ->
              IF QueueNotFound(queueUrl) THEN Finish(c, "rejected", "QueueNotFound")
              ELSE RemoteCall(c)

\* the application calls one of the operations with `name`
CallStart(c, op, name) ==
    /\ call[c].pc \in {"idle", "done"}
    /\ remote.started < MaxCalls
    /\ LET g == GetUrl(name)
           cr == [IdleCall EXCEPT !.op = op, !.name = name, !.how = "pending",
                     !.log = IF op = "createQueue" THEN <<"info: creating">> ELSE <<>>]
       IN call' = [call EXCEPT ![c] =
             CASE g = "throw" -> Finish(cr, "threw", "NotInitialized")
               [] g = "null" -> IF op = "getUrl" THEN Finish(cr, "returned", "null")
                                ELSE Finish(cr, "threw", "TypeError")
               [] g = "lookup" -> [cr EXCEPT !.pc = "lookup"]
               [] g = "cached" -> Then(cr, queueUrls[name])]
    /\ remote' = [remote EXCEPT !.started = @ + 1]
    /\ UNCHANGED <<sqs, queueUrls, remoteQueues, queue, poller, deleteCalls, fate, passed>>

\* getUrl: sqs.getQueueUrlAsync resolved: the url is cached and handed on
CallLookupOk(c) ==
    /\ call[c].pc = "lookup"
    /\ call[c].name \in remoteQueues
    /\ queueUrls' = CachedAfter(call[c].name, TRUE)
    /\ call' = [call EXCEPT ![c] = Then(@, UrlOf(call[c].name))]
    /\ remote' = LookupSucceeded
    /\ UNCHANGED <<sqs, remoteQueues, queue, poller, deleteCalls, fate, passed>>

\* getUrl: sqs.getQueueUrlAsync rejected: debug log, null is handed on
CallLookupFail(c) ==
    /\ call[c].pc = "lookup"
    /\ call[c].name \notin remoteQueues
    /\ queueUrls' = CachedAfter(call[c].name, FALSE)
    /\ call' = [call EXCEPT ![c] =
          Then([@ EXCEPT !.log = @ \o <<"debug: could not be found">>], Null)]
    /\ remote' = LookupFailed
    /\ UNCHANGED <<sqs, remoteQueues, queue, poller, deleteCalls, fate, passed>>

\* the operation's second remote call resolved. The service knows no queue
\* without a url; a receive here finds nothing to hand out.
CallRemoteOk(c) ==
    /\ call[c].pc = "remote"
    /\ call[c].url # Null \/ call[c].op = "createQueue"
    /\ call[c].op = "receiveMessages" => Visible = {}
    /\ call' = [call EXCEPT ![c] =
          CASE @.op = "getArn" -> Finish(@, "resolved", "arn")
            [] @.op = "createQueue" ->
                 Finish([@ EXCEPT !.log = @ \o <<"info: created">>], "resolved", "created")
            [] @.op = "sendMessage" -> Finish(@, "resolved", "sent")
            [] @.op = "receiveMessages" -> Finish(@, "resolved", "[]")
            [] @.op = "deleteMessage" -> Finish(@, "resolved", "deleted")]
    /\ remoteQueues' = IF call[c].op = "createQueue"
                       THEN remoteQueues \cup {call[c].name} ELSE remoteQueues
    /\ remote' = IF call[c].op = "createQueue"
                 THEN [remote EXCEPT !.creates = @ + 1] ELSE remote
    /\ UNCHANGED <<sqs, queueUrls, queue, poller, deleteCalls, fate, passed>>

\* the operation's second remote call rejected: the operation rejects with it
CallRemoteFail(c) ==
    /\ call[c].pc = "remote"
    /\ call' = [call EXCEPT ![c] = Finish(@, "rejected", "RemoteError")]
    /\ remote' = IF call[c].op = "createQueue"
                 THEN [remote EXCEPT !.creates = @ + 1] ELSE remote
    /\ UNCHANGED <<sqs, queueUrls, remoteQueues, queue, poller, deleteCalls, fate, passed>>

\* init(options): sqs = new AWS.SQS(options)
ClientInit ==
    /\ sqs' = TRUE
    /\ UNCHANGED <<queueUrls, remoteQueues, queue, poller, deleteCalls, fate, passed,
                   call, remote>>

\* a reset that also empties the cache
ClientResetClears ==
    /\ sqs' = FALSE
    /\ queueUrls' = [n \in QueueNames |-> Null]
    /\ UNCHANGED <<remoteQueues, queue, poller, deleteCalls, fate, passed, call, remote>>

\* reset(): sqs = null; the cache is left as it is
ClientReset ==
    /\ sqs' = FALSE
    /\ UNCHANGED <<queueUrls, remoteQueues, queue, poller, deleteCalls, fate, passed,
                   call, remote>>

\* remote calls issued so far, completed or in flight
LookupsIssued == remote.lookupsOk + remote.lookupsFailed + PendingLookups
CreatesIssued ==
    remote.creates
    + Cardinality({c \in Calls : call[c].op = "createQueue" /\ call[c].pc = "remote"})

----------------------------------------------------------------------------
(* The options and handler results the model draws from *)

PollOptions(max, stop) ==
    [maxMessages |-> max, waitTimeSeconds |-> "undefined", stopWhenDepleted |-> stop]

OptionChoices ==
    {PollOptions("undefined", "undefined"), PollOptions("1", "true"), PollOptions("2", "true"),
     PollOptions("2", "false"), PollOptions("0", "1")}

HandlerResults == {"false", "undefined", "null", "0", "''", "true"}

Step(P, Options, Results) ==
    \/ \E p \in P, o \in Options : PollStart(p, o)
    \/ \E p \in P : LookupOk(p)
    \/ \E p \in P : LookupFail(p)
    \/ \E p \in P, ids \in SUBSET MsgIds, sync \in {"returns", "throws"} :
          ReceiveResponse(p, ids, sync)
    \/ \E p \in P : ReceiveFail(p)
    \/ \E p \in P, r \in Results : HandlerResolve(p, r)
    \/ \E p \in P : HandlerReject(p)
    \/ \E p \in P, t \in Tokens : DeleteOk(p, t)
    \/ \E p \in P, t \in Tokens : DeleteFail(p, t)
    \/ \E id \in MsgIds : VisibilityTimeout(id)

\* one poll loop, every option and handler result
Next == Step({"p1"}, OptionChoices, HandlerResults)

Spec == Init /\ [][Next]_vars

\* two poll loops on the same queue, with a handler that resolves with false,
\* rejects or throws
ConcurrentOptions == {PollOptions("2", "true")}

ConcurrentNext == Step(Pollers, ConcurrentOptions, {"false"})

ConcurrentSpec == Init /\ [][ConcurrentNext]_vars

\* the drain scenario of the tests: one poll loop with stopWhenDepleted true on an
\* existing queue whose messages all parse, a handler that always resolves with a
\* value other than false, remote calls that all succeed
DrainInit ==
    /\ Init
    /\ remoteQueues = QueueNames
    /\ \A id \in DOMAIN queue : JSONParses(queue[id].Body)

DrainOptions == {PollOptions("undefined", "true"), PollOptions("1", "true"),
                 PollOptions("2", "true")}

DrainNext ==
    \/ \E o \in DrainOptions : PollStart("p1", o)
    \/ LookupOk("p1")
    \/ \E ids \in SUBSET MsgIds : ReceiveResponse("p1", ids, "returns")
    \/ \E r \in HandlerResults \ {"false"} : HandlerResolve("p1", r)
    \/ \E t \in Tokens : DeleteOk("p1", t)
    \/ \E id \in MsgIds : VisibilityTimeout(id)

DrainSpec == DrainInit /\ [][DrainNext]_vars

\* a handler that fails on every batch (it throws, or its promise rejects), with
\* stopWhenDepleted true on an existing queue; remote calls that all succeed
FailInit ==
    /\ Init
    /\ remoteQueues = QueueNames

FailOptions == {PollOptions("undefined", "true"), PollOptions("2", "true")}

FailNext ==
    \/ \E o \in FailOptions : PollStart("p1", o)
    \/ LookupOk("p1")
    \/ \E ids \in SUBSET MsgIds, sync \in {"returns", "throws"} :
          ReceiveResponse("p1", ids, sync)
    \/ HandlerReject("p1")
    \/ \E id \in MsgIds : VisibilityTimeout(id)

FailSpec == FailInit /\ [][FailNext]_vars

\* integer option values: absent, zero, the ends of the documented ranges
\* (maxMessages 1-10, waitTimeSeconds 0-20) and values outside them
ParamValues == {"undefined", "0", "1", "10", "11", "20", "21", "-1"}

ParamOptions ==
    {[maxMessages |-> m, waitTimeSeconds |-> w, stopWhenDepleted |-> "true"] :
        m \in ParamValues, w \in ParamValues}

\* an existing, empty queue
ParamInit ==
    /\ Init
    /\ remoteQueues = QueueNames
    /\ queue = <<>>

\* what the service accepts: 1 to 10 messages, 0 to 20 seconds
ValidParams(params) ==
    /\ params.MaxNumberOfMessages \in 1..10
    /\ params.WaitTimeSeconds \in 0..20

\* one receive through poll for every pair of option values; the service answers
\* a request it accepts and rejects any other
ParamNext ==
    \/ \E o \in ParamOptions : PollStart("p1", o)
    \/ LookupOk("p1")
    \/ ValidParams(poller["p1"].params) /\ ReceiveResponse("p1", {}, "returns")
    \/ ReceiveFail("p1")

ParamSpec == ParamInit /\ [][ParamNext]_vars

\* the module as loaded (sqs null, empty cache), before init; an empty queue
DirInit ==
    /\ sqs = FALSE
    /\ queueUrls = [n \in QueueNames |-> Null]
    /\ remoteQueues \in SUBSET QueueNames
    /\ queue = <<>>
    /\ poller = [p \in Pollers |-> IdlePoller]
    /\ deleteCalls = [p \in Pollers |-> [t \in Tokens |-> 0]]
    /\ fate = [t \in Tokens |-> [by |-> "none", is |-> "none"]]
    /\ passed = [id \in MsgIds |-> 0]
    /\ call = [c \in Calls |-> IdleCall]
    /\ remote = NoRemote

DirOptions == {PollOptions("undefined", "true")}

\* init, reset and the one-shot operations on an existing, a missing or an empty
\* queue name, next to one poll loop
DirNext ==
    \/ ClientInit
    \/ ClientReset
    \/ \E c \in Calls, op \in Ops, name \in Names : CallStart(c, op, name)
    \/ \E c \in Calls : CallLookupOk(c)
    \/ \E c \in Calls : CallLookupFail(c)
    \/ \E c \in Calls : CallRemoteOk(c)
    \/ \E c \in Calls : CallRemoteFail(c)
    \/ \E o \in DirOptions : PollStart("p1", o)
    \/ LookupOk("p1")
    \/ LookupFail("p1")
    \/ ReceiveResponse("p1", {}, "returns")
    \/ ReceiveFail("p1")

DirSpec == DirInit /\ [][DirNext]_vars

----------------------------------------------------------------------------
(* Properties *)

Settled(p) == poller[p].promise \in {"resolved", "rejected"}
BatchTokens(p) == {poller[p].batch[i].ReceiptHandle : i \in 1..Len(poller[p].batch)}
DeleteCallsFor(t) == SumOver([p \in Pollers |-> deleteCalls[p][t]], Pollers)

\* C1: a poll promise settles only because the handler resolved to false or
\* because a receive came back empty with stopWhenDepleted true; in particular a
\* handler failure of any form (a rejected promise, an exception thrown by the
\* handler call) never settles it, neither by resolving nor by rejecting it.
C1_HandlerFailureNeverSettles ==
    \A p \in Pollers : Settled(p) => poller[p].why # "handlerThrew"

\* C2: when the handler's promise rejects, an 'error' log event is emitted, no
\* delete is issued for any message of that batch (then or later), the poll
\* promise stays pending and the loop issues the next receive.
C2_RejectLogsAndContinues ==
    /\ [](\A t \in Tokens : fate[t].is = "rejected" => DeleteCallsFor(t) = 0)
    /\ [][\A p \in Pollers :
            poller[p].pc = "handling" /\ poller'[p].outcome = "rejected"
            => /\ "error" \in Range(poller'[p].emitted)
               /\ deleteCalls' = deleteCalls
               /\ poller'[p].pending = poller[p].pending
               /\ poller'[p].promise = "pending"
               /\ poller'[p].pc = "receiving"
               /\ poller'[p].receives = poller[p].receives + 1]_vars

C2_Witness ==
    \E p \in Pollers :
        /\ poller[p].outcome = "rejected"
        /\ poller[p].pc = "receiving"
        /\ Len(poller[p].batch) = 2

\* C3: when the handler resolves to false, every message of the batch is deleted,
\* poll resolves only after those deletes have completed, and that loop issues no
\* further receive.
C3_StopResolvesAfterDeletes ==
    \A p \in Pollers :
        poller[p].promise = "resolved" /\ poller[p].why = "stop"
        => /\ poller[p].pc = "done"
           /\ \A t \in BatchTokens(p) :
                deleteCalls[p][t] = 1 /\ t \notin poller[p].pending

\* C4: when the handler resolves to any value other than false (undefined, null,
\* 0, '' and true included), a delete is issued for every message of the batch, no
\* delete for a message is issued before the handler's promise for its batch
\* resolved, and the loop continues with another receive.
C4_NonFalseDeletesAndContinues ==
    /\ [](\A p \in Pollers : poller[p].pc = "handling"
            => \A t \in BatchTokens(p) : DeleteCallsFor(t) = 0)
    /\ [][\A p \in Pollers : \A r \in HandlerResults \ {"false"} :
            HandlerResolve(p, r)
            => /\ \A t \in BatchTokens(p) :
                     /\ deleteCalls'[p][t] = deleteCalls[p][t] + 1
                     /\ t \in poller'[p].pending
               /\ poller'[p].promise = "pending"
               /\ poller'[p].pc = "receiving"
               /\ poller'[p].receives = poller[p].receives + 1]_vars

C4_Witness ==
    \E p \in Pollers :
        /\ poller[p].outcome = "resolved"
        /\ poller[p].pc = "receiving"
        /\ Len(poller[p].batch) = 2
        /\ \A t \in BatchTokens(p) : deleteCalls[p][t] = 1

\* C5: with any number of poll loops, at most one remote delete call is ever
\* issued for a receipt handle, and only by the loop that received it, for a
\* message whose body parsed, in a batch whose handler promise resolved.
C5_DeleteOnceAndOnlyAfterResolve ==
    \A t \in Tokens :
        /\ DeleteCallsFor(t) <= 1
        /\ \A p \in Pollers :
             deleteCalls[p][t] > 0
             => /\ fate[t] = [by |-> p, is |-> "resolved"]
                /\ JSONParses(queue[t[1]].Body)

C5_Witness ==
    \E id \in DOMAIN queue : \E p, q \in Pollers :
        /\ p # q
        /\ fate[<<id, 1>>] = [by |-> p, is |-> "resolved"]
        /\ deleteCalls[p][<<id, 1>>] = 1
        /\ fate[<<id, 2>>].by = q
        /\ deleteCalls[q][<<id, 2>>] = 0

\* C6: within one poll loop the receive of the next iteration is never
\* outstanding while a delete issued for an earlier batch of that loop is.
C6_NoReceiveWhileDeleting ==
    \A p \in Pollers : poller[p].pc = "receiving" => poller[p].pending = {}

\* C7: within one poll loop the handler is called exactly once for each receive
\* that returned a non-empty decoded sequence, with exactly that sequence, and
\* never for an empty one; while a handler promise is pending the loop starts
\* no receive and no other handler call.
C7_HandlerOncePerBatch ==
    /\ [][\A p \in Pollers : \A ids \in SUBSET MsgIds : \A sync \in {"returns", "throws"} :
            ReceiveResponse(p, ids, sync)
            => LET messages == Decode(RawMessages(ids))
               IN IF Len(messages) > 0
                  THEN /\ poller'[p].handlerCalls = poller[p].handlerCalls + 1
                       /\ poller'[p].batch = messages
                  ELSE /\ poller'[p].handlerCalls = poller[p].handlerCalls
                       /\ poller'[p].batch = <<>>]_vars
    /\ [][\A p \in Pollers :
            poller'[p].handlerCalls # poller[p].handlerCalls
            => /\ poller[p].pc = "receiving"
               /\ poller'[p].handlerCalls = poller[p].handlerCalls + 1]_vars
    /\ [][\A p \in Pollers :
            poller[p].pc = "handling" /\ poller'[p].outcome = "pending"
            => /\ poller'[p].handlerCalls = poller[p].handlerCalls
               /\ poller'[p].receives = poller[p].receives
               /\ poller'[p].pc = "handling"]_vars

C7_Witness ==
    \E p \in Pollers :
        /\ poller[p].handlerCalls = 2
        /\ poller[p].pc = "handling"
        /\ Len(poller[p].raw) = 1

\* C8: when a receive in poll returns an empty sequence, poll resolves and issues
\* no further receive if options.stopWhenDepleted is exactly true; with any other
\* value (false, absent, another value) it issues another receive and stays pending.
C8_DepletionStopsOnlyOnTrue ==
    /\ [][\A p \in Pollers : \A ids \in SUBSET MsgIds :
            ReceiveResponse(p, ids, "returns") /\ Decode(RawMessages(ids)) = <<>>
            => IF poller[p].options.stopWhenDepleted = "true"
               THEN /\ poller'[p].promise = "resolved"
                    /\ poller'[p].pc = "done"
                    /\ poller'[p].receives = poller[p].receives
               ELSE /\ poller'[p].promise = "pending"
                    /\ poller'[p].pc = "receiving"
                    /\ poller'[p].receives = poller[p].receives + 1]_vars
    /\ [][\A p \in Pollers :
            poller[p].pc = "done"
            => poller'[p].pc = "done" /\ poller'[p].receives = poller[p].receives]_vars

C8_Witness ==
    \E p \in Pollers :
        /\ poller[p].options.stopWhenDepleted = "1"
        /\ poller[p].raw = <<>>
        /\ poller[p].emitted = <<"debug">>
        /\ poller[p].receives = 2
        /\ poller[p].pc = "receiving"

\* C9: in the drain scenario (n messages enqueued, no sends, a handler that always
\* resolves with a value other than false, stopWhenDepleted true) every enqueued
\* message is passed to at most one handler invocation, and to exactly one once
\* poll has resolved.
C9_EachMessageExactlyOnce ==
    \A id \in DOMAIN queue :
        /\ passed[id] <= 1
        /\ poller["p1"].promise = "resolved" => passed[id] = 1

\* C10: poll passes options.maxMessages (1..10) through to every remote receive,
\* every batch handed to the handler holds between 1 and maxMessages messages, and
\* so the handler calls h that consumed n messages satisfy ceil(n / maxMessages)
\* <= h <= n, with h = n when maxMessages is 1.
C10_MaxMessagesPassedThrough ==
    \A p \in Pollers :
        LET max == poller[p].options.maxMessages
            h == poller[p].handlerCalls
            n == poller[p].handedTotal
        IN max \in {"1", "2", "3", "10"}
           => /\ poller[p].receives > 0
                   => poller[p].params.MaxNumberOfMessages = Num(max)
              /\ Len(poller[p].raw) <= Num(max)
              /\ poller[p].pc = "handling"
                   => Len(poller[p].batch) >= 1 /\ Len(poller[p].batch) <= Num(max)
              /\ n <= h * Num(max)
              /\ h <= n
              /\ max = "1" => h = n

C10_Witness ==
    \E p \in Pollers :
        /\ poller[p].options.maxMessages = "2"
        /\ poller[p].why = "depleted"
        /\ poller[p].handlerCalls = 1
        /\ poller[p].handedTotal = 2

----------------------------------------------------------------------------
(* Properties of the one-shot operations *)

\* C11: once a getUrl(Q) has completed successfully (the cache holds Q), every
\* later getUrl(Q), called directly or through another operation or poll, gets
\* the same handle and issues no remote lookup; when the first lookup succeeded
\* alone, exactly one remote lookup for Q is issued in total.
C11_CachedHandleNoLookup ==
    /\ [](\A Q \in QueueNames :
            queueUrls[Q] # Null /\ ~remote.raced /\ remote.lookupsFailed = 0
            => LookupsIssued = 1)
    /\ [][\A Q \in QueueNames :
            queueUrls[Q] # Null
            => /\ LookupsIssued' = LookupsIssued
               /\ queueUrls'[Q] = queueUrls[Q]
               /\ \A c \in Calls : \A op \in Ops :
                    CallStart(c, op, Q) /\ sqs
                    => /\ call'[c].pc # "lookup"
                       /\ call'[c].url = UrlOf(Q)
                       /\ op = "getUrl" => /\ call'[c].how = "resolved"
                                           /\ call'[c].result = "url"
               /\ \A p \in Pollers :
                    poller[p].pc = "idle" => poller'[p].pc # "lookup"]_vars

C11_Witness ==
    /\ queueUrls["q"] = UrlOf("q")
    /\ LookupsIssued = 1
    /\ call["c1"].op = "getUrl" /\ call["c1"].result = "url"
    /\ call["c2"].op = "deleteMessage" /\ call["c2"].result = "deleted"
    /\ poller["p1"].why = "depleted"

\* C12: when the remote lookup for Q fails, getUrl(Q) returns null and the cache
\* gets no entry for Q; while the cache has no entry every getUrl(Q) issues a new
\* remote lookup; and a lookup made once the queue exists returns its handle.
C12_FailedLookupNotCached ==
    /\ [](\A Q \in QueueNames : remote.lookupsOk = 0 => queueUrls[Q] = Null)
    /\ [][\A c \in Calls :
            CallLookupFail(c)
            => /\ queueUrls'[call[c].name] = Null
               /\ call'[c].url = Null
               /\ call[c].op = "getUrl" => /\ call'[c].how = "resolved"
                                           /\ call'[c].result = "null"]_vars
    /\ [][\A Q \in QueueNames : \A c \in Calls : \A op \in Ops :
            CallStart(c, op, Q) /\ sqs /\ queueUrls[Q] = Null
            => /\ call'[c].pc = "lookup"
               /\ LookupsIssued' = LookupsIssued + 1]_vars
    /\ [][\A c \in Calls :
            /\ call[c].pc = "lookup"
            /\ call'[c].pc # "lookup"
            /\ call[c].name \in remoteQueues
            => /\ call'[c].url = UrlOf(call[c].name)
               /\ queueUrls'[call[c].name] = UrlOf(call[c].name)
               /\ call[c].op = "getUrl" => /\ call'[c].how = "resolved"
                                           /\ call'[c].result = "url"]_vars

C12_Witness ==
    /\ poller["p1"].why = "notFound"
    /\ remote.lookupsFailed = 2
    /\ call["c1"].op = "createQueue" /\ call["c1"].result = "created"
    /\ call["c2"].op = "getUrl" /\ call["c2"].result = "url"
    /\ remote.lookupsOk = 1

\* C13: a createQueue for a name whose queue exists already (created by an
\* earlier createQueue that completed) finds the queue, emits the 'already
\* exists' info log, returns the existing handle and issues no remote create: two
\* createQueue calls in sequence issue exactly one remote create.
C13_CreateQueueOnce ==
    /\ [][\A Q \in QueueNames : Q \in remoteQueues
            => CreatesIssued' = CreatesIssued]_vars
    /\ [][\A c \in Calls :
            LET found == /\ call'[c].pc = "done"
                         /\ call'[c].how = "resolved"
                         /\ call'[c].result = "url"
                         /\ call'[c].url = UrlOf(call'[c].name)
                         /\ call'[c].log = <<"info: creating", "info: already exists">>
            IN /\ \A Q \in QueueNames :
                    CallStart(c, "createQueue", Q) /\ sqs /\ Q \in remoteQueues
                    => call'[c].pc = "lookup" \/ found
               /\ /\ call[c].op = "createQueue"
                  /\ call[c].pc = "lookup"
                  /\ call[c].name \in remoteQueues
                  /\ call'[c] # call[c]
                  => found]_vars

C13_Witness ==
    /\ call["c1"].op = "createQueue" /\ call["c1"].result = "created"
    /\ call["c2"].op = "createQueue" /\ call["c2"].result = "url"
    /\ call["c2"].log = <<"info: creating", "info: already exists">>
    /\ CreatesIssued = 1

\* C14: without a client (before init, or after reset with no later init) every
\* operation, poll included, throws the NotInitialized error at once and issues
\* no remote call, also for a name the cache holds.
C14_NotInitialized ==
    [][~sqs
       => /\ \A c \in Calls : \A op \in Ops : \A name \in Names :
               CallStart(c, op, name)
               => /\ call'[c].pc = "done"
                  /\ call'[c].how = "threw"
                  /\ call'[c].result = "NotInitialized"
                  /\ LookupsIssued' = LookupsIssued
                  /\ CreatesIssued' = CreatesIssued
          /\ \A p \in Pollers :
               poller[p].pc = "idle" /\ poller'[p] # poller[p]
               => /\ poller'[p].pc = "done"
                  /\ poller'[p].promise = "threw"
                  /\ poller'[p].why = "notInit"
                  /\ poller'[p].receives = 0
                  /\ LookupsIssued' = LookupsIssued]_vars

C14_Witness ==
    /\ ~sqs
    /\ queueUrls["q"] = UrlOf("q")
    /\ call["c1"].op = "getUrl" /\ call["c1"].result = "url"
    /\ call["c2"].op = "deleteMessage" /\ call["c2"].name = "q"
    /\ call["c2"].result = "NotInitialized"
    /\ poller["p1"].why = "notInit"

\* C15: receiveMessages, deleteMessage and poll called with a (non-empty) queue
\* name whose lookup finds no queue reject with the QueueNotFound error and issue
\* no remote receive or delete; poll never calls the handler and does not loop.
C15_QueueNotFound ==
    /\ [](\A p \in Pollers :
            poller[p].why = "notFound"
            => /\ poller[p].pc = "done"
               /\ poller[p].promise = "rejected"
               /\ poller[p].receives = 0
               /\ poller[p].handlerCalls = 0
               /\ \A t \in Tokens : deleteCalls[p][t] = 0)
    /\ [][\A c \in Calls :
            CallLookupFail(c) /\ call[c].op \in {"receiveMessages", "deleteMessage"}
            => /\ call'[c].pc = "done"
               /\ call'[c].how = "rejected"
               /\ call'[c].result = "QueueNotFound"]_vars
    /\ [][\A p \in Pollers :
            /\ poller[p].pc = "lookup"
            /\ PollQueue \notin remoteQueues
            /\ poller'[p] # poller[p]
            => /\ poller'[p].why = "notFound"
               /\ poller'[p].pc = "done"]_vars

C15_Witness ==
    /\ call["c1"].op = "receiveMessages" /\ call["c1"].result = "QueueNotFound"
    /\ call["c2"].op = "deleteMessage" /\ call["c2"].result = "QueueNotFound"
    /\ poller["p1"].why = "notFound"
    /\ remote.lookupsFailed = 3

\* C16: with a client, for an empty or absent queue name getUrl yields null
\* without a remote call and in the form it has for a missing queue (a promise
\* resolved with null), so receiveMessages and deleteMessage with an empty name
\* fail with QueueNotFound and getArn yields null.
C16_EmptyNameNotFound ==
    \A c \in Calls :
        call[c].pc = "done" /\ call[c].name = "" /\ call[c].result # "NotInitialized"
        => /\ call[c].op = "getUrl"
                => call[c].how = "resolved" /\ call[c].result = "null"
           /\ call[c].op \in {"receiveMessages", "deleteMessage"}
                => call[c].how = "rejected" /\ call[c].result = "QueueNotFound"
           /\ call[c].op = "getArn"
                => call[c].how = "resolved" /\ call[c].result = "null"

----------------------------------------------------------------------------
(* Properties of the receive *)

\* C17: what receiveMessages returns (the batch poll works on) is exactly the
\* raw messages whose body parses, in their original order and with the parsed
\* body; each raw message whose body does not parse produces one 'error' log
\* event, is in no batch, is passed to no handler and is never deleted.
C17_DecodeKeepsParseable ==
    /\ [](\A p \in Pollers :
            LET raw == poller[p].raw
                batch == poller[p].batch
                good == {i \in 1..Len(raw) : JSONParses(raw[i].Body)}
            IN /\ Len(batch) = Cardinality(good)
               /\ \A i \in good :
                    LET k == Cardinality({j \in good : j <= i})
                    IN /\ batch[k].ReceiptHandle = raw[i].ReceiptHandle
                       /\ batch[k].Body = 7)
    /\ [](\A id \in DOMAIN queue :
            ~JSONParses(queue[id].Body)
            => /\ passed[id] = 0
               /\ \A a \in Attempts : DeleteCallsFor(<<id, a>>) = 0)
    /\ [][\A p \in Pollers : \A ids \in SUBSET MsgIds : \A sync \in {"returns", "throws"} :
            ReceiveResponse(p, ids, sync)
            => Cardinality({i \in 1..Len(poller'[p].emitted) :
                              poller'[p].emitted[i] = "error"})
               = Cardinality({i \in 1..Len(poller'[p].raw) :
                                ~JSONParses(poller'[p].raw[i].Body)})]_vars

C17_Witness ==
    \E p \in Pollers :
        /\ Len(poller[p].raw) = 2
        /\ ~JSONParses(poller[p].raw[1].Body)
        /\ Len(poller[p].batch) = 1
        /\ poller[p].batch[1].ReceiptHandle = poller[p].raw[2].ReceiptHandle
        /\ poller[p].emitted = <<"debug", "error", "debug">>
        /\ poller[p].pc = "handling"

\* C18: when options.waitTimeSeconds is absent or 0 the remote receive is issued
\* with a wait time of 0, and when options.maxMessages is absent it is issued
\* with a maximum of 1 message.
C18_DefaultsShortPoll ==
    \A p \in Pollers :
        poller[p].receives > 0
        => /\ poller[p].options.waitTimeSeconds \in {"undefined", "0"}
                => poller[p].params.WaitTimeSeconds = 0
           /\ poller[p].options.maxMessages = "undefined"
                => poller[p].params.MaxNumberOfMessages = 1

\* C19 (as stated): for every integer value of the two options the remote
\* receive carries a maximum within 1..10 and a wait time within 0..20.
C19_ParamsWithinRange ==
    \A p \in Pollers :
        poller[p].receives > 0
        => /\ poller[p].params.MaxNumberOfMessages \in 1..10
           /\ poller[p].params.WaitTimeSeconds \in 0..20

\* C19 (amended): the remote receive carries options.maxMessages and
\* options.waitTimeSeconds unchanged whenever they are non-zero integers, inside
\* the ranges 1..10 and 0..20 or outside them: nothing is clamped.
C19_ParamsPassedThrough ==
    \A p \in Pollers :
        poller[p].receives > 0
        => /\ poller[p].options.maxMessages \notin {"undefined", "0"}
                => poller[p].params.MaxNumberOfMessages
                     = Num(poller[p].options.maxMessages)
           /\ poller[p].options.waitTimeSeconds \notin {"undefined", "0"}
                => poller[p].params.WaitTimeSeconds
                     = Num(poller[p].options.waitTimeSeconds)

C19_Witness ==
    \E p \in Pollers :
        /\ poller[p].options.maxMessages = "11"
        /\ poller[p].options.waitTimeSeconds = "21"
        /\ poller[p].params = [MaxNumberOfMessages |-> 11, WaitTimeSeconds |-> 21]
        /\ poller[p].why = "receiveFailed"

\* C20: once a poll loop has started, a failure of a remote receive call or of a
\* remote delete call is reported as a log event and polling continues: the poll
\* promise never rejects because of it.
C20_TransportFailureAbsorbed ==
    /\ [](\A p \in Pollers : poller[p].why # "receiveFailed")
    /\ [][\A p \in Pollers :
            ReceiveFail(p)
            => /\ poller'[p].promise = "pending"
               /\ "error" \in Range(poller'[p].emitted)]_vars
    /\ [][\A p \in Pollers : \A t \in Tokens :
            DeleteFail(p, t)
            => /\ poller'[p].promise = poller[p].promise
               /\ poller'[p].emitted # poller[p].emitted
               /\ "error" \in Range(poller'[p].emitted)]_vars

\* C21 (as stated): poll stops for depletion only when the remote receive
\* returned zero messages.
C21_DepletionOnlyOnEmptyReceive ==
    \A p \in Pollers : poller[p].why = "depleted" => Len(poller[p].raw) = 0

\* C21 (amended): poll with stopWhenDepleted true stops for depletion exactly
\* when the decoded sequence is empty: the remote receive returned zero messages,
\* or every raw message it returned was dropped by the decoder as unparseable.
C21_DepletionOnEmptyDecoded ==
    /\ [](\A p \in Pollers :
            poller[p].why = "depleted"
            => /\ poller[p].options.stopWhenDepleted = "true"
               /\ \A i \in 1..Len(poller[p].raw) : ~JSONParses(poller[p].raw[i].Body))
    /\ [][\A p \in Pollers : \A ids \in SUBSET MsgIds :
            /\ ReceiveResponse(p, ids, "returns")
            /\ poller[p].options.stopWhenDepleted = "true"
            /\ \A id \in ids : ~JSONParses(queue[id].Body)
            => /\ poller'[p].promise = "resolved"
               /\ poller'[p].why = "depleted"]_vars

C21_Witness ==
    \E p \in Pollers :
        /\ poller[p].why = "depleted"
        /\ Len(poller[p].raw) = 1
        /\ ~JSONParses(poller[p].raw[1].Body)
        /\ \E id \in DOMAIN queue : queue[id].state = "visible"

\* C22: with a handler that fails on every batch and stopWhenDepleted true, poll
\* issues no delete, and it settles only by resolving on an empty receive: the
\* handler failures neither resolve nor reject it.
C22_FailingHandlerDrains ==
    \A p \in Pollers :
        /\ \A t \in Tokens : deleteCalls[p][t] = 0
        /\ poller[p].pc = "done"
             => poller[p].promise = "resolved" /\ poller[p].why = "depleted"

\* C23: under any interleaving of getUrl calls, poll, createQueue, reset and
\* init, a cache entry once written is never removed or changed; reset and init
\* leave the cache as it is; and whatever lookups raced, the entry for a name is
\* the url a single lookup would have left.
C23_CacheEntryStable ==
    /\ [](\A Q \in QueueNames : queueUrls[Q] \in {Null, UrlOf(Q)})
    /\ [][\A Q \in QueueNames :
            queueUrls[Q] # Null => queueUrls'[Q] = queueUrls[Q]]_vars
    /\ [][sqs' # sqs => queueUrls' = queueUrls]_vars

C23_Witness ==
    /\ remote.raced
    /\ remote.lookupsOk = 3
    /\ queueUrls["q"] = UrlOf("q")
    /\ ~sqs
    /\ \E c \in Calls : call[c].op = "createQueue" /\ call[c].result = "url"
====
